---- MODULE Spec2Model ----
(***************************************************************************)
(* The greeter service of tonic-hello-tls: the four handlers of MyGreeter  *)
(* (say_hello, say_hello_stream, list_messages, list_messages_stream), the *)
(* Broadcaster they share and the message store behind them.               *)
(*                                                                         *)
(* The repository holds the service twice: the binary (main.rs, with its   *)
(* own `mod messages`) and the library (greeter.rs with messages.rs).  The *)
(* two differ only in Broadcaster::broadcast and in what its callers do    *)
(* with its result; `build` says which of the two is running.              *)
(***************************************************************************)
EXTENDS Naturals, Sequences, FiniteSets

VARIABLES
    build,     \* "bin" (main.rs) or "lib" (greeter.rs + messages.rs)
    db,        \* the messages table: the `message` column of its rows, in insertion order
    chan,      \* every value the broadcast channel has stored, in send order
    listed,    \* the result of the last list_messages call
    uPc,       \* say_hello calls: position of each call
    uName,     \* say_hello calls: request.name
    uInsert,   \* say_hello calls: outcome of db.insert_message
    uResult,   \* say_hello calls: what the call returned
    sPc,       \* say_hello_stream: position of the spawned task
    sCur,      \* say_hello_stream: the item the task holds (v.name, or err)
    sIn,       \* say_hello_stream: the items in_stream.next() has yielded so far
    sOut,      \* say_hello_stream: every item tx.send has enqueued, in order
    sTaken,    \* say_hello_stream: how many of them the response stream has taken from rx
    sClosed,   \* say_hello_stream: rx was dropped (the response stream is gone)
    sTried,    \* say_hello_stream: how many db.insert_message calls of the task have returned
    sPublished, \* say_hello_stream: how many broadcast calls of the task have returned
    bPc,       \* list_messages_stream: position of the spawned task
    bStart,    \* list_messages_stream: how many values the channel had stored at subscribe()
    bNext,     \* list_messages_stream: broadcast_rx's position in the channel
    bMsg,      \* list_messages_stream: the msg the task holds
    bOut,      \* list_messages_stream: every item tx.send has enqueued, in order
    bTaken,    \* list_messages_stream: how many of them the response stream has taken from rx
    bClosed,   \* list_messages_stream: rx was dropped (the client's connection is closed)
    eChain,    \* a read error: the Status and the errors its source() chain leads to
    eClass     \* what the read loop makes of eChain, once it has looked

vars == <<build, db, chan, listed, uPc, uName, uInsert, uResult,
          sPc, sCur, sIn, sOut, sTaken, sClosed, sTried, sPublished,
          bPc, bStart, bNext, bMsg, bOut, bTaken, bClosed, eChain, eClass>>

uVars == <<uPc, uName, uInsert, uResult>>
sVars == <<sPc, sCur, sIn, sOut, sTaken, sClosed, sTried, sPublished>>
eVars == <<eChain, eClass>>
bVars == <<bPc, bStart, bNext, bMsg, bOut, bTaken, bClosed>>

----------------------------------------------------------------------------
(* Bounds of the model. *)

\* The names clients send; a name is a sequence of characters.
Names == {<<"a">>, <<"b">>}

\* The say_hello calls, say_hello_stream connections and live-feed
\* connections of one run.
Calls == {"u1", "u2"}
RelayCalls == {"u1"}
Conns == {"c1", "c2"}
RelayConns == {"c1"}
Subs  == {"s1", "s2"}

\* Items (messages or errors) one inbound stream yields before it ends.
MaxItems == 2

\* Layers below the Status in the cause chain of a read error.
MaxChain == 2

\* The length of the broadcast channel's buffer.  messages.rs:8 and
\* main.rs:268 give it 16 slots; the model gives it fewer, so that the
\* sends of one run can overrun a subscriber that does not keep up.  What a
\* receiver sees depends only on whether it is more than this many values
\* behind.
Capacity == 1

\* mpsc::channel(128): the hand-off queue between a spawned task and the
\* response stream.
MpscCapacity == 128

None == "None"


----------------------------------------------------------------------------
(* Values. *)

\* Option<T>
Some(x) == <<x>>
NoValue == <<>>

\* Option::unwrap_or_default on an Option<String>
unwrap_or_default(o) == IF o = NoValue THEN <<>> ELSE o[1]

\* The name alone, as say_hello_stream passes it to the store.
Format_Bare(name) == name

\* format!("Hello {}!", name)
Format(name) == <<"Hello ">> \o name \o <<"!">>

\* Ok(Response::new(reply)) and Ok(HelloReply { message }) as a stream item
OkReply(message) == [ok |-> TRUE, message |-> message]

\* Status::new(tonic::Code::Internal, err.to_string())
Internal(text) == [ok |-> FALSE, code |-> "Internal", message |-> <<text>>]

\* No result yet.
Pending == [ok |-> FALSE, code |-> "Pending", message |-> <<>>]

\* What a DbError prints as (db.rs: Pool, Database).
DbErrors == {"Pool error", "Database error"}

\* What a broadcast SendError prints as.
SendErrorText == "channel closed"

\* Err(err): a read error handed on to the client unchanged
ErrItem == [ok |-> FALSE, code |-> "Transport", message |-> <<"read error">>]

Last(q) == q[Len(q)]

Range(q) == {q[i] : i \in 1..Len(q)}

----------------------------------------------------------------------------
(* ErrorClassifier: match_for_io_error and the BrokenPipe test. *)

IoKinds == {"BrokenPipe", "ConnectionReset"}

\* The errors a cause chain is made of: a std::io::Error, an h2::Error
\* (which may or may not carry an io::Error) and any other error.
Layers ==
    [type : {"io"}, kind : IoKinds]
        \cup [type : {"h2"}, io : IoKinds \cup {None}]
        \cup [type : {"other"}]

RECURSIVE SeqsUpTo(_, _)
SeqsUpTo(S, n) ==
    IF n = 0 THEN {<<>>}
    ELSE LET shorter == SeqsUpTo(S, n - 1)
         IN  shorter \cup {Append(q, x) : q \in shorter, x \in S}

\* A Status and what its source() chain leads to.
Chains == {<<[type |-> "status"]>> \o q : q \in SeqsUpTo(Layers, MaxChain)}

\* A walk that does not look into an h2::Error.
RECURSIVE WalkChain_NoH2(_, _)
WalkChain_NoH2(chain, i) ==
    IF i > Len(chain) THEN None
    ELSE IF chain[i].type = "io" THEN chain[i].kind
    ELSE WalkChain_NoH2(chain, i + 1)

\* The loop of match_for_io_error, at position i of the chain: the kind of
\* the io::Error it returns, or None.
RECURSIVE WalkChain(_, _)
WalkChain(chain, i) ==
    IF i > Len(chain) THEN None
    ELSE IF chain[i].type = "io" THEN chain[i].kind
    ELSE IF chain[i].type = "h2" /\ chain[i].io # None THEN chain[i].io
    ELSE WalkChain(chain, i + 1)

match_for_io_error(chain) == WalkChain(chain, 1)

\* The BrokenPipe test negated.
IsBrokenPipe_Negated(found) == found # None /\ found # "BrokenPipe"

\* `io_err.kind() == ErrorKind::BrokenPipe` on what match_for_io_error found
IsBrokenPipe(found) == found # None /\ found = "BrokenPipe"

----------------------------------------------------------------------------
(* The store (db.rs). *)

\* Db::insert_message, when it succeeds: one more row, holding the message.
insert_message(rows, message) == Append(rows, Some(message))

\* Db::get_messages, when it succeeds: the rows of the table.
get_messages(rows) == rows

\* The reply list_messages builds from the rows.
\* A reply that leaves out the rows whose message is NULL.
ListReply_SkipNull(rows) ==
    LET kept == SelectSeq(rows, LAMBDA d : d # NoValue)
    IN  [i \in 1..Len(kept) |-> unwrap_or_default(kept[i])]

ListReply(rows) == [i \in 1..Len(rows) |-> unwrap_or_default(rows[i])]

----------------------------------------------------------------------------
(* The Broadcaster. *)

\* The live Receivers: a task owns its broadcast_rx until its loop ends.
Receivers == {s \in Subs : bPc[s] \in {"recv", "send"}}

\* A send that gives up when some receiver's buffer is full.
ChannelSend_Stall(msg) ==
    IF Receivers = {} \/ \E s \in Receivers : Len(chan) - bNext[s] >= Capacity
    THEN [ok |-> FALSE, chan |-> chan]
    ELSE [ok |-> TRUE, chan |-> Append(chan, msg)]

\* tokio's broadcast Sender::send: with no Receiver the value is handed
\* back as a SendError and not stored; otherwise it is stored, whatever the
\* receivers' positions are.
ChannelSend(msg) ==
    IF Receivers = {}
    THEN [ok |-> FALSE, chan |-> chan]
    ELSE [ok |-> TRUE, chan |-> Append(chan, msg)]

\* Broadcaster::broadcast.  The library's logs a SendError and returns ();
\* the binary's returns it.
broadcast(msg) ==
    LET r == ChannelSend(msg)
    IN  [chan |-> r.chan,
         ret  |-> IF build = "bin" /\ ~r.ok THEN "Err" ELSE "Ok"]

\* A subscribe that starts the new Receiver at the oldest value the buffer
\* still holds.
subscribe_Replay == IF Len(chan) > Capacity THEN Len(chan) - Capacity ELSE 0

\* Broadcaster::subscribe: the new Receiver starts at the channel's tail.
subscribe == Len(chan)

\* A recv that hands out the next value without moving past it.
recv_Repeat(next) ==
    IF Len(chan) - next > Capacity
    THEN [kind |-> "Lagged", next |-> Len(chan) - Capacity]
    ELSE IF next < Len(chan)
    THEN [kind |-> "Value", value |-> chan[next + 1], next |-> next]
    ELSE [kind |-> "Empty", next |-> next]

\* tokio's broadcast Receiver::recv at position next: Lagged when more than
\* Capacity values were stored since, the next value when there is one, and
\* otherwise the task waits.
recv(next) ==
    IF Len(chan) - next > Capacity
    THEN [kind |-> "Lagged", next |-> Len(chan) - Capacity]
    ELSE IF next < Len(chan)
    THEN [kind |-> "Value", value |-> chan[next + 1], next |-> next + 1]
    ELSE [kind |-> "Empty", next |-> next]

----------------------------------------------------------------------------
(* Init: the service is up, no request has arrived.  The messages table    *)
(* holds the given rows; chain is the read error put to the classifier.    *)

InitWith(rows, chain) ==
    /\ build \in {"bin", "lib"}
    /\ db = rows
    /\ chan = <<>>
    /\ listed = Pending
    /\ uPc = [u \in Calls |-> "idle"]
    /\ uName = [u \in Calls |-> <<>>]
    /\ uInsert = [u \in Calls |-> None]
    /\ uResult = [u \in Calls |-> Pending]
    /\ sPc = [c \in Conns |-> "idle"]
    /\ sCur = [c \in Conns |-> <<>>]
    /\ sIn = [c \in Conns |-> <<>>]
    /\ sOut = [c \in Conns |-> <<>>]
    /\ sTaken = [c \in Conns |-> 0]
    /\ sClosed = [c \in Conns |-> FALSE]
    /\ sTried = [c \in Conns |-> 0]
    /\ sPublished = [c \in Conns |-> 0]
    /\ bPc = [s \in Subs |-> "idle"]
    /\ bStart = [s \in Subs |-> 0]
    /\ bNext = [s \in Subs |-> 0]
    /\ bMsg = [s \in Subs |-> <<>>]
    /\ bOut = [s \in Subs |-> <<>>]
    /\ bTaken = [s \in Subs |-> 0]
    /\ bClosed = [s \in Subs |-> FALSE]
    /\ eChain = chain
    /\ eClass = None

\* The table is empty and no read error is at hand.
Init == InitWith(<<>>, <<>>)

----------------------------------------------------------------------------
(* say_hello *)

\* A SendMessage request arrives; the handler builds the reply and calls
\* insert_message.
SayHello(u, name) ==
    /\ uPc[u] = "idle"
    /\ uPc' = [uPc EXCEPT ![u] = "insert"]
    /\ uName' = [uName EXCEPT ![u] = name]
    /\ UNCHANGED <<eVars, build, db, chan, listed, uInsert, uResult, sVars, bVars>>

\* say_hello treating a failed insert as say_hello_stream does: the error
\* is logged and the handler goes on to broadcast and reply.
SayHelloInsert_Swallow(u) ==
    /\ uPc[u] = "insert"
    /\ \E r \in {"Ok"} \cup DbErrors :
        /\ uInsert' = [uInsert EXCEPT ![u] = r]
        /\ db' = IF r = "Ok" THEN insert_message(db, Format(uName[u])) ELSE db
        /\ uPc' = [uPc EXCEPT ![u] = "broadcast"]
    /\ UNCHANGED <<eVars, build, chan, listed, uName, uResult, sVars, bVars>>

\* insert_message(&reply.message).await.map_err(..)? : the row is appended,
\* or the handler returns the error as an Internal status.
SayHelloInsert(u) ==
    /\ uPc[u] = "insert"
    /\ \E r \in {"Ok"} \cup DbErrors :
        /\ uInsert' = [uInsert EXCEPT ![u] = r]
        /\ IF r = "Ok"
           THEN /\ db' = insert_message(db, Format(uName[u]))
                /\ uPc' = [uPc EXCEPT ![u] = "broadcast"]
                /\ UNCHANGED uResult
           ELSE /\ uResult' = [uResult EXCEPT ![u] = Internal(r)]
                /\ uPc' = [uPc EXCEPT ![u] = "done"]
                /\ UNCHANGED db
    /\ UNCHANGED <<eVars, build, chan, listed, uName, sVars, bVars>>

\* broadcast(&reply.message), then Ok(Response::new(reply)); the binary
\* returns a broadcast error as an Internal status instead.
SayHelloBroadcast(u) ==
    /\ uPc[u] = "broadcast"
    /\ LET b == broadcast(Format(uName[u]))
       IN  /\ chan' = b.chan
           /\ uResult' = [uResult EXCEPT ![u] =
                            IF b.ret = "Err" THEN Internal(SendErrorText)
                            ELSE OkReply(Format(uName[u]))]
    /\ uPc' = [uPc EXCEPT ![u] = "done"]
    /\ UNCHANGED <<eVars, build, db, listed, uName, uInsert, sVars, bVars>>

----------------------------------------------------------------------------
(* say_hello_stream *)

\* What in_stream.next() yields: a request, or a read error, recorded by
\* what match_for_io_error finds in it.
OkItem(name) == [ok |-> TRUE, name |-> name]
BadItem(found) == [ok |-> FALSE, io |-> found]

\* A SendMessageStream request arrives: the handler spawns the task and
\* returns the response stream over rx.
SayHelloStream(c) ==
    /\ sPc[c] = "idle"
    /\ sPc' = [sPc EXCEPT ![c] = "read"]
    /\ UNCHANGED <<eVars, build, db, chan, listed, uVars, bVars, sTried, sPublished,
                   sCur, sIn, sOut, sTaken, sClosed>>

\* A loop that polls again when the inbound stream has ended.
StreamRead_Spin(c) ==
    /\ sPc[c] = "read"
    /\ \/ /\ UNCHANGED <<sPc, sCur, sIn>>
       \/ /\ Len(sIn[c]) < MaxItems
          /\ \E name \in Names :
                /\ sIn' = [sIn EXCEPT ![c] = Append(@, OkItem(name))]
                /\ sCur' = [sCur EXCEPT ![c] = name]
          /\ sPc' = [sPc EXCEPT ![c] = "ack"]
       \/ /\ Len(sIn[c]) < MaxItems
          /\ \E found \in {match_for_io_error(chain) : chain \in Chains} :
                /\ sIn' = [sIn EXCEPT ![c] = Append(@, BadItem(found))]
                /\ sPc' = [sPc EXCEPT ![c] =
                             IF IsBrokenPipe(found) THEN "done" ELSE "forward"]
          /\ sCur' = [sCur EXCEPT ![c] = <<>>]
    /\ UNCHANGED <<eVars, build, db, chan, listed, uVars, bVars, sTried, sPublished,
                   sOut, sTaken, sClosed>>

\* `while let Some(result) = in_stream.next().await` and the match on the
\* result, up to the next await.
StreamRead(c) ==
    /\ sPc[c] = "read"
    /\ \/ \* None: the loop ends
          /\ sPc' = [sPc EXCEPT ![c] = "done"]
          /\ UNCHANGED <<sCur, sIn>>
       \/ \* Ok(v)
          /\ Len(sIn[c]) < MaxItems
          /\ \E name \in Names :
                /\ sIn' = [sIn EXCEPT ![c] = Append(@, OkItem(name))]
                /\ sCur' = [sCur EXCEPT ![c] = name]
          /\ sPc' = [sPc EXCEPT ![c] = "ack"]
       \/ \* Err(err)
          /\ Len(sIn[c]) < MaxItems
          /\ \E found \in {match_for_io_error(chain) : chain \in Chains} :
                /\ sIn' = [sIn EXCEPT ![c] = Append(@, BadItem(found))]
                /\ sPc' = [sPc EXCEPT ![c] =
                             IF IsBrokenPipe(found) THEN "done" ELSE "forward"]
          /\ sCur' = [sCur EXCEPT ![c] = <<>>]
    /\ UNCHANGED <<eVars, build, db, chan, listed, uVars, bVars, sTried, sPublished,
                   sOut, sTaken, sClosed>>

\* An acknowledgement that jumps the queue.
StreamAck_Prepend(c) ==
    /\ sPc[c] = "ack"
    /\ IF sClosed[c]
       THEN /\ sPc' = [sPc EXCEPT ![c] = "panicked"]
            /\ UNCHANGED sOut
       ELSE /\ Len(sOut[c]) - sTaken[c] < MpscCapacity
            /\ sOut' = [sOut EXCEPT ![c] = <<OkReply(Format(sCur[c]))>> \o @]
            /\ sPc' = [sPc EXCEPT ![c] = "insert"]
    /\ UNCHANGED <<eVars, build, db, chan, listed, uVars, bVars, sTried, sPublished,
                   sCur, sIn, sTaken, sClosed>>

\* An acknowledgement after which the task publishes without storing.
StreamAck_SkipInsert(c) ==
    /\ sPc[c] = "ack"
    /\ IF sClosed[c]
       THEN /\ sPc' = [sPc EXCEPT ![c] = "panicked"]
            /\ UNCHANGED sOut
       ELSE /\ Len(sOut[c]) - sTaken[c] < MpscCapacity
            /\ sOut' = [sOut EXCEPT ![c] = Append(@, OkReply(Format(sCur[c])))]
            /\ sPc' = [sPc EXCEPT ![c] = "broadcast"]
    /\ UNCHANGED <<eVars, build, db, chan, listed, uVars, bVars, sTried, sPublished,
                   sCur, sIn, sTaken, sClosed>>

\* tx.send(Ok(HelloReply { .. })).await.expect("working rx"): the task
\* panics when rx is gone and waits while the queue is full.
StreamAck(c) ==
    /\ sPc[c] = "ack"
    /\ IF sClosed[c]
       THEN /\ sPc' = [sPc EXCEPT ![c] = "panicked"]
            /\ UNCHANGED sOut
       ELSE /\ Len(sOut[c]) - sTaken[c] < MpscCapacity
            /\ sOut' = [sOut EXCEPT ![c] = Append(@, OkReply(Format(sCur[c])))]
            /\ sPc' = [sPc EXCEPT ![c] = "insert"]
    /\ UNCHANGED <<eVars, build, db, chan, listed, uVars, bVars, sTried, sPublished,
                   sCur, sIn, sTaken, sClosed>>

\* An insert whose failure ends the task.
StreamInsert_Abort(c) ==
    /\ sPc[c] = "insert"
    /\ \E r \in {"Ok"} \cup DbErrors :
        IF r = "Ok"
        THEN /\ db' = insert_message(db, sCur[c])
             /\ sPc' = [sPc EXCEPT ![c] = "broadcast"]
        ELSE /\ UNCHANGED db
             /\ sPc' = [sPc EXCEPT ![c] = "done"]
    /\ sTried' = [sTried EXCEPT ![c] = @ + 1]
    /\ UNCHANGED <<eVars, build, chan, listed, uVars, bVars, sPublished,
                   sCur, sIn, sOut, sTaken, sClosed>>

\* db.insert_message(&v.name).await; an error is logged.
StreamInsert(c) ==
    /\ sPc[c] = "insert"
    /\ \E r \in {"Ok"} \cup DbErrors :
        IF r = "Ok"
        THEN db' = insert_message(db, sCur[c])
        ELSE UNCHANGED db
    /\ sTried' = [sTried EXCEPT ![c] = @ + 1]
    /\ sPc' = [sPc EXCEPT ![c] = "broadcast"]
    /\ UNCHANGED <<eVars, build, chan, listed, uVars, bVars, sPublished,
                   sCur, sIn, sOut, sTaken, sClosed>>

\* A broadcast handed to a task of its own: the loop goes back to the
\* inbound stream before the publish has been made.
StreamBroadcast_Detached(c) ==
    /\ sPc[c] = "broadcast"
    /\ sPc' = [sPc EXCEPT ![c] = "read"]
    /\ UNCHANGED <<eVars, build, db, chan, listed, uVars, bVars, sTried, sPublished,
                   sCur, sIn, sOut, sTaken, sClosed>>

\* broadcaster.broadcast(&v.name); an error is logged.
StreamBroadcast(c) ==
    /\ sPc[c] = "broadcast"
    /\ chan' = broadcast(sCur[c]).chan
    /\ sPublished' = [sPublished EXCEPT ![c] = @ + 1]
    /\ sPc' = [sPc EXCEPT ![c] = "read"]
    /\ UNCHANGED <<eVars, build, db, listed, uVars, bVars, sTried,
                   sCur, sIn, sOut, sTaken, sClosed>>

\* A forward that leaves the loop whether or not the send succeeded.
StreamForward_Break(c) ==
    /\ sPc[c] = "forward"
    /\ IF sClosed[c]
       THEN UNCHANGED sOut
       ELSE /\ Len(sOut[c]) - sTaken[c] < MpscCapacity
            /\ sOut' = [sOut EXCEPT ![c] = Append(@, ErrItem)]
    /\ sPc' = [sPc EXCEPT ![c] = "done"]
    /\ UNCHANGED <<eVars, build, db, chan, listed, uVars, bVars, sTried, sPublished,
                   sCur, sIn, sTaken, sClosed>>

\* match tx.send(Err(err)).await { Ok(_) => (), Err(_err) => break }
StreamForward(c) ==
    /\ sPc[c] = "forward"
    /\ IF sClosed[c]
       THEN /\ sPc' = [sPc EXCEPT ![c] = "done"]
            /\ UNCHANGED sOut
       ELSE /\ Len(sOut[c]) - sTaken[c] < MpscCapacity
            /\ sOut' = [sOut EXCEPT ![c] = Append(@, ErrItem)]
            /\ sPc' = [sPc EXCEPT ![c] = "read"]
    /\ UNCHANGED <<eVars, build, db, chan, listed, uVars, bVars, sTried, sPublished,
                   sCur, sIn, sTaken, sClosed>>

\* The response stream (ReceiverStream::new(rx)) is polled and yields the
\* next queued item.  An Err item ends the response, and rx is dropped.
StreamTake(c) ==
    /\ ~sClosed[c]
    /\ sTaken[c] < Len(sOut[c])
    /\ sTaken' = [sTaken EXCEPT ![c] = @ + 1]
    /\ sClosed' = [sClosed EXCEPT ![c] = ~sOut[c][sTaken[c] + 1].ok]
    /\ UNCHANGED <<eVars, build, db, chan, listed, uVars, bVars, sTried, sPublished,
                   sPc, sCur, sIn, sOut>>

\* The peer goes away: the response stream, and rx with it, is dropped.
StreamClose(c) ==
    /\ sPc[c] # "idle"
    /\ ~sClosed[c]
    /\ sClosed' = [sClosed EXCEPT ![c] = TRUE]
    /\ UNCHANGED <<eVars, build, db, chan, listed, uVars, bVars, sTried, sPublished,
                   sPc, sCur, sIn, sOut, sTaken>>

----------------------------------------------------------------------------
(* list_messages *)

\* get_messages().await.map_err(..)? and the reply built from the rows.
ListMessages ==
    /\ \E r \in {"Ok"} \cup DbErrors :
        listed' = IF r = "Ok"
                  THEN [ok |-> TRUE, messages |-> ListReply(get_messages(db))]
                  ELSE Internal(r)
    /\ UNCHANGED <<eVars, build, db, chan, uVars, sVars, bVars>>

----------------------------------------------------------------------------
(* list_messages_stream *)

\* A ListMessagesStream request arrives: the handler subscribes, spawns the
\* task and returns the response stream over rx.
ListMessagesStream(s) ==
    /\ bPc[s] = "idle"
    /\ bNext' = [bNext EXCEPT ![s] = subscribe]
    /\ bStart' = [bStart EXCEPT ![s] = Len(chan)]
    /\ bPc' = [bPc EXCEPT ![s] = "recv"]
    /\ UNCHANGED <<eVars, build, db, chan, listed, uVars, sVars,
                   bMsg, bOut, bTaken, bClosed>>

\* `while let Ok(msg) = broadcast_rx.recv().await`: a value is taken, or
\* the loop ends on RecvError::Lagged.
SubRecv(s) ==
    /\ bPc[s] = "recv"
    /\ LET r == recv(bNext[s])
       IN  /\ r.kind # "Empty"
           /\ bNext' = [bNext EXCEPT ![s] = r.next]
           /\ IF r.kind = "Value"
              THEN /\ bMsg' = [bMsg EXCEPT ![s] = r.value]
                   /\ bPc' = [bPc EXCEPT ![s] = "send"]
              ELSE /\ bPc' = [bPc EXCEPT ![s] = "lagged"]
                   /\ UNCHANGED bMsg
    /\ UNCHANGED <<eVars, build, db, chan, listed, uVars, sVars,
                   bStart, bOut, bTaken, bClosed>>

\* match tx.send(msg).await { Ok(_) => (), Err(_) => break }
SubSend(s) ==
    /\ bPc[s] = "send"
    /\ IF bClosed[s]
       THEN /\ bPc' = [bPc EXCEPT ![s] = "stopped"]
            /\ UNCHANGED bOut
       ELSE /\ Len(bOut[s]) - bTaken[s] < MpscCapacity
            /\ bOut' = [bOut EXCEPT ![s] = Append(@, OkReply(bMsg[s]))]
            /\ bPc' = [bPc EXCEPT ![s] = "recv"]
    /\ UNCHANGED <<eVars, build, db, chan, listed, uVars, sVars,
                   bStart, bNext, bMsg, bTaken, bClosed>>

\* The response stream is polled and yields the next queued item.
SubTake(s) ==
    /\ ~bClosed[s]
    /\ bTaken[s] < Len(bOut[s])
    /\ bTaken' = [bTaken EXCEPT ![s] = @ + 1]
    /\ UNCHANGED <<eVars, build, db, chan, listed, uVars, sVars,
                   bPc, bStart, bNext, bMsg, bOut, bClosed>>

\* The live-feed client goes away: the response stream, and rx with it, is
\* dropped.
SubClose(s) ==
    /\ bPc[s] # "idle"
    /\ ~bClosed[s]
    /\ bClosed' = [bClosed EXCEPT ![s] = TRUE]
    /\ UNCHANGED <<eVars, build, db, chan, listed, uVars, sVars,
                   bPc, bStart, bNext, bMsg, bOut, bTaken>>

----------------------------------------------------------------------------

\* The whole service.
Next ==
    \/ \E u \in Calls, name \in Names : SayHello(u, name)
    \/ \E u \in Calls : SayHelloInsert(u)
    \/ \E u \in Calls : SayHelloBroadcast(u)
    \/ \E c \in Conns : SayHelloStream(c)
    \/ \E c \in Conns : StreamRead(c)
    \/ \E c \in Conns : StreamAck(c)
    \/ \E c \in Conns : StreamInsert(c)
    \/ \E c \in Conns : StreamBroadcast(c)
    \/ \E c \in Conns : StreamForward(c)
    \/ \E c \in Conns : StreamTake(c)
    \/ \E c \in Conns : StreamClose(c)
    \/ ListMessages
    \/ \E s \in Subs : ListMessagesStream(s)
    \/ \E s \in Subs : SubRecv(s)
    \/ \E s \in Subs : SubSend(s)
    \/ \E s \in Subs : SubTake(s)
    \/ \E s \in Subs : SubClose(s)

Spec == Init /\ [][Next]_vars

\* The handlers meet only in the store and in the broadcast channel, and the
\* service is checked in two parts, each with say_hello as the sender the
\* other handlers run beside.

\* The live feed: say_hello calls and list_messages_stream connections.
NextFeed ==
    \/ \E u \in Calls, name \in Names : SayHello(u, name)
    \/ \E u \in Calls : SayHelloInsert(u)
    \/ \E u \in Calls : SayHelloBroadcast(u)
    \/ \E s \in Subs : ListMessagesStream(s)
    \/ \E s \in Subs : SubRecv(s)
    \/ \E s \in Subs : SubSend(s)
    \/ \E s \in Subs : SubTake(s)
    \/ \E s \in Subs : SubClose(s)

SpecFeed == Init /\ [][NextFeed]_vars

\* The tasks list_messages_stream spawned run whenever they can, and a
\* say_hello call that was accepted runs to its end; clients and publishers
\* owe the service nothing.
FairFeed ==
    /\ SpecFeed
    /\ \A s \in Subs : WF_vars(SubRecv(s)) /\ WF_vars(SubSend(s))
    /\ \A u \in Calls : WF_vars(SayHelloInsert(u)) /\ WF_vars(SayHelloBroadcast(u))

\* The store: a say_hello_stream connection, a say_hello call and
\* list_messages.
NextRelay ==
    \/ \E u \in RelayCalls, name \in Names : SayHello(u, name)
    \/ \E u \in RelayCalls : SayHelloInsert(u)
    \/ \E u \in RelayCalls : SayHelloBroadcast(u)
    \/ \E c \in RelayConns : SayHelloStream(c)
    \/ \E c \in RelayConns : StreamRead(c)
    \/ \E c \in RelayConns : StreamAck(c)
    \/ \E c \in RelayConns : StreamInsert(c)
    \/ \E c \in RelayConns : StreamBroadcast(c)
    \/ \E c \in RelayConns : StreamForward(c)
    \/ \E c \in RelayConns : StreamTake(c)
    \/ \E c \in RelayConns : StreamClose(c)
    \/ ListMessages

SpecRelay == Init /\ [][NextRelay]_vars

----------------------------------------------------------------------------
(* Properties. *)

\* The task of a live feed has ended: its loop was left on Lagged, or on a
\* failed tx.send.  Its broadcast_rx is dropped with it.
Ended(s) == bPc[s] \in {"lagged", "stopped"}

\* The step in which say_hello call u broadcasts and returns.
Publishes(u) == uPc[u] = "broadcast" /\ uPc'[u] = "done"

\* C1, as claimed: say_hello returns the reply "Hello <name>!" also when
\* insert_message failed.
C1_Original ==
    \A u \in Calls :
        (uPc[u] = "done" /\ uInsert[u] \in DbErrors)
            => uResult[u] = OkReply(Format(uName[u]))

\* C1, amended: say_hello hands a failure of insert_message to the client as
\* an Internal status carrying the error's text, and returns a reply only
\* when the insert succeeded; the reply is then "Hello <name>!".
C1_AppendFailurePropagates ==
    \A u \in Calls :
        uPc[u] = "done" =>
            /\ uInsert[u] \in DbErrors => uResult[u] = Internal(uInsert[u])
            /\ uResult[u].ok =>
                 uInsert[u] = "Ok" /\ uResult[u] = OkReply(Format(uName[u]))

C1_Witness ==
    \E u \in Calls : uPc[u] = "done" /\ uInsert[u] \in DbErrors

\* C2: a broadcast made while no Receiver is subscribed reports nothing to
\* its caller: the say_hello call that makes it returns its reply.
C2_Claim ==
    [][\A u \in Calls :
          (Publishes(u) /\ Receivers = {})
              => uResult'[u] = OkReply(Format(uName[u]))]_vars

\* C3: a live feed does not end on its own: the task of a subscriber that
\* fell behind ends only after its client went away.
C3_Claim ==
    \A s \in Subs : Ended(s) => bClosed[s]

\* C4: a send made after a live-feed client closed its connection (and that
\* connection's task ended) succeeds as it would have before.
C4_Claim ==
    [][\A u \in Calls :
          (Publishes(u) /\ \E s \in Subs : bPc[s] = "stopped")
              => uResult'[u].ok]_vars

\* C5: the text say_hello_stream stores for an item, which list_messages
\* then returns last, is the text it acknowledged the item with.
C5_Claim ==
    [][\A c \in Conns :
          (sPc[c] = "insert" /\ sPc'[c] = "broadcast" /\ db' # db)
              => Last(ListReply(get_messages(db'))) = Last(sOut[c]).message]_vars

C7_BenignCloses ==
    \A c \in Conns : \A i \in 1..Len(sIn[c]) :
        (~sIn[c][i].ok /\ sIn[c][i].io = "BrokenPipe") =>
            /\ i = Len(sIn[c])
            /\ sPc[c] = "done"
            /\ Len(sOut[c]) <= i - 1

C7_Witness ==
    \E c \in Conns :
        /\ Len(sIn[c]) >= 2
        /\ Last(sIn[c]) = BadItem("BrokenPipe")
        /\ Len(sOut[c]) = 1
        /\ sPc[c] = "done"

\* C8: once a live-feed client's connection is closed, its task ends and its
\* Receiver is dropped.
C8_Claim ==
    \A s \in Subs : bClosed[s] ~> Ended(s)

\* C9: a broadcast never waits and never fails because of a subscriber: a
\* handler that reached its broadcast can take it at once, and when there is
\* a Receiver the value is stored, no receiver is touched, and a receiver
\* that had caught up finds the value next, whatever state the others are in.
C9_PublishNeverWaits ==
    /\ [](\A u \in Calls : uPc[u] = "broadcast" => ENABLED SayHelloBroadcast(u))
    /\ [][\A u \in Calls :
             (Publishes(u) /\ Receivers # {}) =>
                 /\ chan' = Append(chan, Format(uName[u]))
                 /\ uResult'[u] = OkReply(Format(uName[u]))
                 /\ \A s \in Receivers :
                       /\ bNext'[s] = bNext[s] /\ bPc'[s] = bPc[s]
                       /\ bNext[s] = Len(chan) =>
                            recv(bNext[s])'.kind = "Value"]_vars

\* A receiver is overrun and its client gone, and the other has received
\* everything published since it subscribed, the last value included.
C9_Witness ==
    \E s1, s2 \in Subs :
        /\ s1 # s2
        /\ s1 \in Receivers /\ bClosed[s1]
        /\ Len(chan) - bNext[s1] > Capacity
        /\ s2 \in Receivers
        /\ bNext[s2] = Len(chan)
        /\ Len(bOut[s2]) = Len(chan) - bStart[s2]
        /\ Len(bOut[s2]) >= 2

\* C10: the i-th item a live feed is given is the i-th value stored after it
\* subscribed, so nothing stored before; and a task that waits with nothing
\* left to take has handed on every value stored since it subscribed.
C10_NoReplay ==
    \A s \in Subs :
        /\ \A i \in 1..Len(bOut[s]) :
              /\ bStart[s] + i <= Len(chan)
              /\ bOut[s][i] = OkReply(chan[bStart[s] + i])
        /\ (bPc[s] = "recv" /\ bNext[s] = Len(chan))
              => Len(bOut[s]) = Len(chan) - bStart[s]

C10_Witness ==
    \E s \in Subs :
        /\ bStart[s] > 0
        /\ Len(bOut[s]) > 0
        /\ chan[bStart[s]] # chan[bStart[s] + 1]


\* Whether q can be had from r by leaving values out, keeping the order of
\* the rest.
RECURSIVE IsSubsequence(_, _)
IsSubsequence(q, r) ==
    IF q = <<>> THEN TRUE
    ELSE IF r = <<>> THEN FALSE
    ELSE IF q[1] = r[1] THEN IsSubsequence(Tail(q), Tail(r))
    ELSE IsSubsequence(q, Tail(r))

\* The texts a live feed was given, in the order it was given them.
Delivered(s) == [i \in 1..Len(bOut[s]) |-> bOut[s][i].message]

\* C11: the texts a live feed was given are a subsequence of the values the
\* channel stored, in the order it stored them, and there are no more of
\* them than values the Receiver has moved past, so none was given twice.
C11_PublishOrder ==
    \A s \in Subs :
        /\ IsSubsequence(Delivered(s), chan)
        /\ Len(bOut[s]) <= bNext[s] - bStart[s]

C11_Witness ==
    \E s \in Subs :
        /\ Len(bOut[s]) = 2
        /\ bOut[s][1] # bOut[s][2]
        /\ Delivered(s) = chan


\* The sequence q without the items that are not ok.
RECURSIVE OkOnly(_)
OkOnly(q) ==
    IF q = <<>> THEN <<>>
    ELSE IF q[1].ok THEN <<q[1]>> \o OkOnly(Tail(q))
    ELSE OkOnly(Tail(q))

\* The requests connection c has read and the acknowledgements it has
\* enqueued, error items left out.
Requests(c) == OkOnly(sIn[c])
Acks(c) == OkOnly(sOut[c])

\* C12: the k-th acknowledgement of a connection answers the k-th request
\* read on it, and every request read has its acknowledgement, except the
\* one the task is about to acknowledge or has died on.
C12_AcksInOrder ==
    \A c \in Conns :
        /\ Len(Acks(c)) <= Len(Requests(c))
        /\ \A k \in 1..Len(Acks(c)) :
              Acks(c)[k] = OkReply(Format(Requests(c)[k].name))
        /\ Len(Acks(c)) < Len(Requests(c)) =>
              /\ Len(Acks(c)) = Len(Requests(c)) - 1
              /\ sPc[c] \in {"ack", "panicked"}

C12_Witness ==
    \E c \in Conns :
        /\ Len(Acks(c)) = 2
        /\ Requests(c)[1].name # Requests(c)[2].name


\* C13: the reply of a say_hello call, and the acknowledgement of every
\* request say_hello_stream has read, is "Hello " + name + "!".
C13_AckText ==
    /\ \A u \in Calls :
          uResult[u].ok => uResult[u].message = <<"Hello ">> \o uName[u] \o <<"!">>
    /\ \A c \in Conns : \A k \in 1..Len(Acks(c)) :
          Acks(c)[k].message = <<"Hello ">> \o Requests(c)[k].name \o <<"!">>

C13_Witness ==
    /\ \E u \in Calls : uResult[u].ok
    /\ \E c \in Conns : Len(Acks(c)) = 2


\* A step of the task say_hello_stream spawned for connection c.
TaskStep(c) ==
    \/ StreamRead(c)
    \/ StreamAck(c)
    \/ StreamInsert(c)
    \/ StreamBroadcast(c)
    \/ StreamForward(c)

\* The step in which the task finds the inbound stream of c exhausted.
EndOfStream(c) == StreamRead(c) /\ sIn'[c] = sIn[c] /\ sPc'[c] = "done"

\* C14: a task that awaits the next inbound item can always be ended by the
\* end of the inbound stream; that step enqueues, stores and publishes
\* nothing; the ended task takes no further step; and what it had enqueued
\* can still be taken by the response stream, which ends after it.
C14_EndOfStreamCloses ==
    /\ [](\A c \in Conns : sPc[c] = "read" => ENABLED EndOfStream(c))
    /\ [](\A c \in Conns : sPc[c] = "done" => ~ENABLED TaskStep(c))
    /\ [](\A c \in Conns :
             (sPc[c] = "done" /\ ~sClosed[c] /\ sTaken[c] < Len(sOut[c]))
                 => ENABLED StreamTake(c))
    /\ [][\A c \in Conns :
             (sPc[c] = "read" /\ sPc'[c] = "done" /\ sIn'[c] = sIn[c])
                 => sOut' = sOut /\ db' = db /\ chan' = chan]_vars

\* The client sent two requests and closed its send side; the task has
\* ended and an acknowledgement is still waiting to be taken.
C14_Witness ==
    \E c \in Conns :
        /\ sPc[c] = "done"
        /\ Len(sIn[c]) = 2 /\ Last(sIn[c]).ok
        /\ Len(sOut[c]) = 2
        /\ sTaken[c] < Len(sOut[c])
        /\ ~sClosed[c]


----------------------------------------------------------------------------
(* The messages table as list_messages may find it: the message column is  *)
(* nullable, and rows written by other clients or by hand are there too.   *)

MaxRows == 2

Rows == {NoValue} \cup {Some(n) : n \in Names} \cup {Some(Format(n)) : n \in Names}

Tables == SeqsUpTo(Rows, MaxRows)

InitTable == \E rows \in Tables : InitWith(rows, <<>>)

NextTable ==
    \/ ListMessages
    \/ \E u \in RelayCalls :
          \/ \E name \in Names : SayHello(u, name)
          \/ SayHelloInsert(u)
          \/ SayHelloBroadcast(u)

SpecTable == InitTable /\ [][NextTable]_vars

\* C15: a successful ListMessages reply has one text for each row of the
\* table, in the order of the rows: the i-th text is the i-th row's message,
\* or the empty string when that row's message is NULL.  No row is dropped,
\* duplicated or moved.
C15_OneTextPerRow ==
    [][(listed' # listed /\ listed'.ok)
          => /\ Len(listed'.messages) = Len(db)
             /\ \A i \in 1..Len(db) :
                   /\ i <= Len(listed'.messages)
                   /\ listed'.messages[i] = IF db[i] = NoValue THEN <<>> ELSE db[i][1]]_vars

\* A listing of a table holding a NULL row and a row with a text.
C15_Witness ==
    /\ listed.ok
    /\ Len(listed.messages) >= 2
    /\ Len(listed.messages) = Len(db)
    /\ \E i, j \in 1..Len(db) :
          /\ db[i] = NoValue /\ listed.messages[i] = <<>>
          /\ db[j] # NoValue /\ listed.messages[j] # <<>>


\* C16: when the response stream is gone at the moment the task enqueues an
\* acknowledgement, the task leaves its loop as it does at the end of the
\* inbound stream: it never ends in a panic.
C16_Claim ==
    \A c \in Conns : sPc[c] # "panicked"


\* C17: when insert_message fails for an item of say_hello_stream, the
\* item's acknowledgement is already the newest outbound item, the task goes
\* on to the item's broadcast, which it can always take and which hands the
\* name to the channel, and from there back to reading the inbound stream,
\* where the next item can be read as long as the client sends one.
C17_AppendFailureIsolated ==
    /\ [](\A c \in Conns :
            /\ sPc[c] = "insert" => ENABLED StreamInsert(c)
            /\ sPc[c] = "broadcast" => ENABLED StreamBroadcast(c)
            /\ sPc[c] = "read" => ENABLED StreamRead(c))
    /\ [][\A c \in Conns :
            /\ (sPc[c] = "insert" /\ sTried'[c] # sTried[c] /\ db' = db)
                  => /\ Len(sOut[c]) > 0
                     /\ Last(sOut[c]) = [ok |-> TRUE,
                                         message |-> <<"Hello ">> \o sCur[c] \o <<"!">>]
                     /\ sOut' = sOut
                     /\ sPc'[c] = "broadcast"
            /\ (sPc[c] = "broadcast" /\ sPc'[c] # "broadcast")
                  => /\ sPc'[c] = "read"
                     /\ chan' = IF Receivers = {} THEN chan ELSE Append(chan, sCur[c])
                     /\ sOut' = sOut]_vars

\* Two items whose inserts both failed: both were acknowledged and the task
\* is back at the inbound stream.
C17_Witness ==
    \E c \in Conns :
        /\ Len(Requests(c)) = 2
        /\ sTried[c] = 2
        /\ db = <<>>
        /\ Len(Acks(c)) = 2
        /\ sPc[c] = "read"


----------------------------------------------------------------------------
(* Both publishers and a live feed: a say_hello call and a say_hello_stream *)
(* connection publish while a list_messages_stream task receives.          *)

OrderSubs == {"s1"}

NextOrder ==
    \/ \E u \in RelayCalls, name \in Names : SayHello(u, name)
    \/ \E u \in RelayCalls : SayHelloInsert(u)
    \/ \E u \in RelayCalls : SayHelloBroadcast(u)
    \/ \E c \in RelayConns : SayHelloStream(c)
    \/ \E c \in RelayConns : StreamRead(c)
    \/ \E c \in RelayConns : StreamAck(c)
    \/ \E c \in RelayConns : StreamInsert(c)
    \/ \E c \in RelayConns : StreamBroadcast(c)
    \/ \E c \in RelayConns : StreamForward(c)
    \/ \E s \in OrderSubs : ListMessagesStream(s)
    \/ \E s \in OrderSubs : SubRecv(s)
    \/ \E s \in OrderSubs : SubSend(s)

SpecOrder == Init /\ [][NextOrder]_vars

RECURSIVE SumTried(_)
\* The insert_message calls that have returned in the tasks of S.
SumTried(S) ==
    IF S = {} THEN 0
    ELSE LET c == CHOOSE x \in S : TRUE
         IN  sTried[c] + SumTried(S \ {c})

\* The insert_message calls that have returned, in either handler.
InsertsReturned == SumTried(Conns) + Cardinality({u \in Calls : uInsert[u] # None})

\* C18: a handler is at its broadcast only when the insert_message call for
\* the same message has returned; the channel changes only in such a step;
\* so the channel never holds more messages than inserts have returned, and
\* what a subscriber is given is a message of the channel.
C18_AppendBeforePublish ==
    /\ [](\A u \in Calls : uPc[u] = "broadcast" => uInsert[u] # None)
    /\ [](\A c \in Conns : sPc[c] = "broadcast" => sTried[c] = Len(Requests(c)))
    /\ [](\A c \in Conns : sPc[c] \in {"ack", "insert"} => sTried[c] = Len(Requests(c)) - 1)
    /\ [](Len(chan) <= InsertsReturned)
    /\ [](\A s \in Subs : \A i \in 1..Len(bOut[s]) :
            \E j \in 1..Len(chan) : chan[j] = bOut[s][i].message)
    /\ [][chan' # chan
            => \/ \E u \in Calls : Publishes(u) /\ uInsert[u] # None
               \/ \E c \in Conns : /\ sPc[c] = "broadcast" /\ sPc'[c] = "read"
                                   /\ sTried[c] = Len(Requests(c))]_vars

\* A subscriber has been given a name published by say_hello_stream and a
\* greeting published by say_hello.
C18_Witness ==
    \E s \in Subs :
        /\ \E i \in 1..Len(bOut[s]) : bOut[s][i].message \in Names
        /\ \E i \in 1..Len(bOut[s]) : bOut[s][i].message \in {Format(n) : n \in Names}


----------------------------------------------------------------------------
(* The classifier on its own: a read error is at hand and the read loop of *)
(* say_hello_stream looks at it once.                                       *)

InitClassify == \E chain \in Chains : InitWith(<<>>, chain)

\* if let Some(io_err) = match_for_io_error(&err) { if io_err.kind() ==
\* ErrorKind::BrokenPipe { break; } } : the loop ends quietly, or goes on
\* to hand the error to the client.
Classify ==
    /\ eChain # <<>>
    /\ eClass = None
    /\ eClass' = IF IsBrokenPipe(match_for_io_error(eChain))
                 THEN "BENIGN_DISCONNECT"
                 ELSE "PROPAGATE"
    /\ UNCHANGED <<eChain, build, db, chan, listed, uVars, sVars, bVars>>

\* The walk is a loop without an await: once entered it runs to its return.
SpecClassify == InitClassify /\ [][Classify]_vars /\ WF_vars(Classify)

\* The layer is an I/O fault, or carries one.
HasIo(layer) ==
    \/ layer.type = "io"
    \/ layer.type = "h2" /\ layer.io # None

\* The positions of a chain, outermost first, that hold an I/O fault.
IoPositions(chain) == {i \in 1..Len(chain) : HasIo(chain[i])}

\* The kind of the outermost I/O fault of a chain, or None.
FirstFault(chain) ==
    IF IoPositions(chain) = {} THEN None
    ELSE LET first == CHOOSE i \in IoPositions(chain) :
                          \A j \in IoPositions(chain) : i <= j
         IN  IF chain[first].type = "io" THEN chain[first].kind
             ELSE chain[first].io

\* C19: the walk over a finite cause chain ends, and its verdict is
\* BENIGN_DISCONNECT exactly when the outermost I/O fault of the chain, an
\* io::Error itself or one carried by an h2::Error, is a broken pipe; it is
\* PROPAGATE when that fault is of another kind or the chain has none.
C19_Classification ==
    /\ [](eClass # None =>
            /\ eClass \in {"BENIGN_DISCONNECT", "PROPAGATE"}
            /\ eClass = "BENIGN_DISCONNECT" <=> FirstFault(eChain) = "BrokenPipe"
            /\ (FirstFault(eChain) = None \/ FirstFault(eChain) # "BrokenPipe")
                   => eClass = "PROPAGATE")
    /\ (eChain # <<>> ~> eClass # None)

\* A broken pipe found inside the second h2::Error of a chain whose first
\* h2::Error carries no io::Error.
C19_Witness ==
    /\ eClass = "BENIGN_DISCONNECT"
    /\ Len(eChain) = 3
    /\ eChain[2] = [type |-> "h2", io |-> None]
    /\ eChain[3] = [type |-> "h2", io |-> "BrokenPipe"]


\* C20: say_hello broadcasts only after its insert_message succeeded.  A
\* call whose insert failed has returned the error without a broadcast; the
\* step that publishes belongs to a call whose insert returned Ok; so every
\* text in the channel, and every text given to a subscriber, is a row of
\* the table, and the channel holds no more texts than the table has rows.
C20_PublishedIsStored ==
    /\ [](\A u \in Calls :
            uInsert[u] \in DbErrors => uPc[u] = "done" /\ ~uResult[u].ok)
    /\ [](\A i \in 1..Len(chan) : \E k \in 1..Len(db) : db[k] = <<chan[i]>>)
    /\ [](Len(chan) <= Len(db))
    /\ [](\A s \in Subs : \A i \in 1..Len(bOut[s]) :
            \E k \in 1..Len(db) : db[k] = <<bOut[s][i].message>>)
    /\ [][\A u \in Calls :
            (chan' # chan /\ uPc'[u] # uPc[u]) => uInsert[u] = "Ok"]_vars

\* One call's insert failed and another's succeeded, for different names,
\* while a subscriber was listening: only the second text was published
\* and delivered.
C20_Witness ==
    \E u, v \in Calls, s \in Subs :
        /\ uInsert[u] \in DbErrors /\ uPc[u] = "done"
        /\ uInsert[v] = "Ok" /\ uPc[v] = "done"
        /\ uName[u] # uName[v]
        /\ chan = <<Format(uName[v])>>
        /\ Len(bOut[s]) = 1
        /\ bOut[s][1].message = Format(uName[v])


----------------------------------------------------------------------------
(* Two say_hello_stream connections at once, with a subscriber on the      *)
(* channel so that what they publish is kept.                              *)

NextPair ==
    \/ \E c \in Conns : SayHelloStream(c)
    \/ \E c \in Conns : StreamRead(c)
    \/ \E c \in Conns : StreamAck(c)
    \/ \E c \in Conns : StreamInsert(c)
    \/ \E c \in Conns : StreamBroadcast(c)
    \/ \E c \in Conns : StreamForward(c)
    \/ \E s \in OrderSubs : ListMessagesStream(s)

SpecPair == Init /\ [][NextPair]_vars

\* q is the beginning of r.
IsPrefix(q, r) == Len(q) <= Len(r) /\ \A i \in 1..Len(q) : r[i] = q[i]

\* C21: the task of a connection handles one item at a time.  With K the
\* number of requests it has read: before the acknowledgement of the newest
\* one it has acknowledged, stored and published the K-1 before it; then it
\* acknowledges, then its insert call returns, then its broadcast returns,
\* and only then is it back at the inbound stream.  The k-th insert call of
\* the task stores the k-th request's name at the end of the table, the
\* k-th broadcast hands that name to the channel, and rows and channel
\* entries already there keep their places whoever else writes.
C21_SequentialRelay ==
    /\ [](\A c \in Conns :
            LET K == Len(Requests(c)) IN
            /\ sPc[c] \in {"ack", "panicked"} =>
                  Len(Acks(c)) = K - 1 /\ sTried[c] = K - 1 /\ sPublished[c] = K - 1
            /\ sPc[c] = "insert" =>
                  Len(Acks(c)) = K /\ sTried[c] = K - 1 /\ sPublished[c] = K - 1
            /\ sPc[c] = "broadcast" =>
                  Len(Acks(c)) = K /\ sTried[c] = K /\ sPublished[c] = K - 1
            /\ sPc[c] \in {"idle", "read", "forward", "done"} =>
                  Len(Acks(c)) = K /\ sTried[c] = K /\ sPublished[c] = K)
    /\ [][/\ IsPrefix(db, db')
          /\ IsPrefix(chan, chan')
          /\ \A c \in Conns :
               LET K == Len(Requests(c)) IN
               /\ sIn'[c] # sIn[c] => sPc[c] = "read" /\ sPublished[c] = K
               /\ sTried'[c] # sTried[c] =>
                     /\ sTried'[c] = K
                     /\ db' = db \/ db' = Append(db, <<Requests(c)[K].name>>)
                     /\ chan' = chan
               /\ sPublished'[c] # sPublished[c] =>
                     /\ sPublished'[c] = K /\ sTried[c] = K
                     /\ chan' = chan \/ chan' = Append(chan, Requests(c)[K].name)
                     /\ db' = db]_vars

\* Two connections, two requests with different names each, stored and
\* published in turns.
C21_Witness ==
    \E c, d \in Conns :
        /\ c # d
        /\ sPublished[c] = 2 /\ sPublished[d] = 2
        /\ Requests(c)[1].name # Requests(c)[2].name
        /\ db = <<<<Requests(c)[1].name>>, <<Requests(d)[1].name>>,
                  <<Requests(c)[2].name>>, <<Requests(d)[2].name>>>>
        /\ chan = <<Requests(c)[1].name, Requests(d)[1].name,
                    Requests(c)[2].name, Requests(d)[2].name>>

====
